---- MODULE Spec2Model ----
(***************************************************************************)
(* ext-ops: checked (Try..), saturating and wrapping operator traits for   *)
(* the primitive integer types.  An integer type is a pair                 *)
(* (signed, bits); the model ranges over the widths 2..MaxBits so that the *)
(* whole operand space of every type is enumerated.  A call is one step:   *)
(* the caller holds operands x, y of a type and invokes one operator,      *)
(* whose outcome is stored in result.  An error returned by a checked      *)
(* operator may then be widened with one of the From conversions, the      *)
(* widened error being stored in converted.                                *)
(***************************************************************************)
EXTENDS Integers

VARIABLES signed, bits, x, y, op, result, converted

vars == <<signed, bits, x, y, op, result, converted>>

\* Largest bit width of the modelled integer types.
MaxBits == 5

Widths == 2..MaxBits

RECURSIVE Pow2(_)
Pow2(n) == IF n = 0 THEN 1 ELSE 2 * Pow2(n - 1)

\* $ty::MIN and $ty::MAX of a `w`-bit type.
MIN(s, w) == IF s THEN -Pow2(w - 1) ELSE 0
MAX(s, w) == IF s THEN Pow2(w - 1) - 1 ELSE Pow2(w) - 1

Range(s, w) == MIN(s, w)..MAX(s, w)

-----------------------------------------------------------------------------
(* error.rs: the error kinds.  A unit struct is a value of its own type;   *)
(* an enum variant carries the enum's type and the variant's kind.         *)

Overflow == [type |-> "Overflow", kind |-> "Overflow"]
Underflow == [type |-> "Underflow", kind |-> "Underflow"]
Undefined == [type |-> "Undefined", kind |-> "Undefined"]
RangeError_Underflow == [type |-> "RangeError", kind |-> "Underflow"]
RangeError_Overflow == [type |-> "RangeError", kind |-> "Overflow"]
ArithmeticError_Undefined == [type |-> "ArithmeticError", kind |-> "Undefined"]
ArithmeticError_Underflow == [type |-> "ArithmeticError", kind |-> "Underflow"]
ArithmeticError_Overflow == [type |-> "ArithmeticError", kind |-> "Overflow"]

RangeError == {RangeError_Underflow, RangeError_Overflow}
ArithmeticError ==
    {ArithmeticError_Undefined, ArithmeticError_Underflow, ArithmeticError_Overflow}

\* The From impls.  Each takes a value of its source type.
ArithmeticError_from_Overflow(e) == ArithmeticError_Overflow

\* Variant: the match arms are crossed.
ArithmeticError_from_RangeError_crossed(err) ==
    CASE err = RangeError_Underflow -> ArithmeticError_Overflow
      [] err = RangeError_Overflow -> ArithmeticError_Underflow

ArithmeticError_from_RangeError(err) ==
    CASE err = RangeError_Underflow -> ArithmeticError_Underflow
      [] err = RangeError_Overflow -> ArithmeticError_Overflow

ArithmeticError_from_Undefined(e) == ArithmeticError_Undefined
ArithmeticError_from_Underflow(e) == ArithmeticError_Underflow
RangeError_from_Overflow(e) == RangeError_Overflow
RangeError_from_Underflow(e) == RangeError_Underflow

\* The source types for which From is implemented, per target type.
ArithmeticError_sources == {"Overflow", "RangeError", "Undefined", "Underflow"}
RangeError_sources == {"Overflow", "Underflow"}

\* ArithmeticError::from(e) and RangeError::from(e), resolved on e's type.
ArithmeticError_from(e) ==
    CASE e.type = "Overflow" -> ArithmeticError_from_Overflow(e)
      [] e.type = "RangeError" -> ArithmeticError_from_RangeError(e)
      [] e.type = "Undefined" -> ArithmeticError_from_Undefined(e)
      [] e.type = "Underflow" -> ArithmeticError_from_Underflow(e)
RangeError_from(e) ==
    CASE e.type = "Overflow" -> RangeError_from_Overflow(e)
      [] e.type = "Underflow" -> RangeError_from_Underflow(e)

-----------------------------------------------------------------------------
(* Option and Result values.                                               *)

None == [tag |-> "None"]
Some(n) == [tag |-> "Some", val |-> n]
Ok(n) == [tag |-> "Ok", val |-> n]
Err(e) == [tag |-> "Err", err |-> e]
\* A saturating or wrapping operator returns a bare value of the type.
Val(n) == [tag |-> "Val", val |-> n]
\* The outcome of a call that unwinds instead of returning.
Panic == [tag |-> "Panic"]
\* No call has been made yet.
Pending == [tag |-> "Pending"]
\* No error has been converted yet.
Unconverted == [tag |-> "Unconverted"]

-----------------------------------------------------------------------------
(* The primitive integer methods the traits are built on.                  *)

Abs(n) == IF n < 0 THEN -n ELSE n

\* `/` and `%` of the primitive types truncate toward zero.
TruncDiv(a, b) ==
    IF (a < 0) = (b < 0) THEN Abs(a) \div Abs(b) ELSE -(Abs(a) \div Abs(b))
TruncRem(a, b) == a - b * TruncDiv(a, b)

Checked(s, w, r) == IF r \in Range(s, w) THEN Some(r) ELSE None

checked_add(s, w, self, rhs) == Checked(s, w, self + rhs)
checked_sub(s, w, self, rhs) == Checked(s, w, self - rhs)
checked_mul(s, w, self, rhs) == Checked(s, w, self * rhs)
checked_neg(s, w, self) == Checked(s, w, -self)
\* None if rhs == 0 or the division overflows.
checked_div(s, w, self, rhs) ==
    IF rhs = 0 THEN None ELSE Checked(s, w, TruncDiv(self, rhs))
checked_rem(s, w, self, rhs) ==
    IF rhs = 0 \/ TruncDiv(self, rhs) \notin Range(s, w)
    THEN None
    ELSE Some(TruncRem(self, rhs))

-----------------------------------------------------------------------------
(* try_ops.rs, impl_int_ops: checked operators of the signed types.        *)

int_try_add(w, self, rhs) ==
    LET c == checked_add(TRUE, w, self, rhs) IN
    IF c = None
    THEN Err(IF self >= 0 THEN RangeError_Overflow ELSE RangeError_Underflow)
    ELSE Ok(c.val)

\* Variant: every None is reported as Undefined, as the unsigned impl does.
int_try_div_all_undefined(w, self, rhs) ==
    LET c == checked_div(TRUE, w, self, rhs) IN
    IF c = None THEN Err(ArithmeticError_Undefined) ELSE Ok(c.val)

\* Variant: plain `self / rhs`, which unwinds on a zero divisor or overflow.
int_try_div_unchecked(w, self, rhs) ==
    IF rhs # 0 /\ TruncDiv(self, rhs) \in Range(TRUE, w)
    THEN Ok(TruncDiv(self, rhs))
    ELSE Panic

int_try_div(w, self, rhs) ==
    LET c == checked_div(TRUE, w, self, rhs) IN
    IF c = None
    THEN Err(IF rhs = 0 THEN ArithmeticError_Undefined ELSE ArithmeticError_Overflow)
    ELSE Ok(c.val)

\* Variant: the failure is classified by the sign of self alone, as in try_add.
int_try_mul_self_sign(w, self, rhs) ==
    LET c == checked_mul(TRUE, w, self, rhs) IN
    IF c = None
    THEN Err(IF self >= 0 THEN RangeError_Overflow ELSE RangeError_Underflow)
    ELSE Ok(c.val)

\* Variant: the failure is classified by the sign of rhs alone.
int_try_mul_rhs_sign(w, self, rhs) ==
    LET c == checked_mul(TRUE, w, self, rhs) IN
    IF c = None
    THEN Err(IF rhs >= 0 THEN RangeError_Overflow ELSE RangeError_Underflow)
    ELSE Ok(c.val)

int_try_mul(w, self, rhs) ==
    LET c == checked_mul(TRUE, w, self, rhs) IN
    IF c = None
    THEN Err(IF (self >= 0) = (rhs >= 0)
             THEN RangeError_Overflow
             ELSE RangeError_Underflow)
    ELSE Ok(c.val)

int_try_neg(w, self) ==
    LET c == checked_neg(TRUE, w, self) IN
    IF c = None THEN Err(Overflow) ELSE Ok(c.val)

\* Variant: every None is reported as Undefined, as the unsigned impl does.
int_try_rem_all_undefined(w, self, rhs) ==
    LET c == checked_rem(TRUE, w, self, rhs) IN
    IF c = None THEN Err(Undefined) ELSE Ok(c.val)

\* Variant: the Euclidean (never negative) remainder, as rem_euclid gives.
int_try_rem_euclid(w, self, rhs) ==
    IF rhs = 0 THEN Err(Undefined) ELSE Ok(self % Abs(rhs))

int_try_rem(w, self, rhs) ==
    LET c == checked_rem(TRUE, w, self, rhs) IN
    IF c = None
    THEN IF rhs = 0 THEN Err(Undefined) ELSE Ok(0)
    ELSE Ok(c.val)

\* Variant: the failure is classified by the sign of rhs.
int_try_sub_rhs_sign(w, self, rhs) ==
    LET c == checked_sub(TRUE, w, self, rhs) IN
    IF c = None
    THEN Err(IF rhs >= 0 THEN RangeError_Overflow ELSE RangeError_Underflow)
    ELSE Ok(c.val)

int_try_sub(w, self, rhs) ==
    LET c == checked_sub(TRUE, w, self, rhs) IN
    IF c = None
    THEN Err(IF self >= 0 THEN RangeError_Overflow ELSE RangeError_Underflow)
    ELSE Ok(c.val)

-----------------------------------------------------------------------------
(* try_ops.rs, impl_uint_ops: checked operators of the unsigned types.     *)

uint_try_add(w, self, rhs) ==
    LET c == checked_add(FALSE, w, self, rhs) IN
    IF c = None THEN Err(Overflow) ELSE Ok(c.val)

uint_try_div(w, self, rhs) ==
    LET c == checked_div(FALSE, w, self, rhs) IN
    IF c = None THEN Err(Undefined) ELSE Ok(c.val)

\* Variant: the failure is reported as Underflow.
uint_try_mul_underflow(w, self, rhs) ==
    LET c == checked_mul(FALSE, w, self, rhs) IN
    IF c = None THEN Err(Underflow) ELSE Ok(c.val)

uint_try_mul(w, self, rhs) ==
    LET c == checked_mul(FALSE, w, self, rhs) IN
    IF c = None THEN Err(Overflow) ELSE Ok(c.val)

\* Variant: the failure is reported as Overflow, as the signed impl does.
uint_try_neg_overflow(w, self) ==
    LET c == checked_neg(FALSE, w, self) IN
    IF c = None THEN Err(Overflow) ELSE Ok(c.val)

uint_try_neg(w, self) ==
    LET c == checked_neg(FALSE, w, self) IN
    IF c = None THEN Err(Underflow) ELSE Ok(c.val)

uint_try_rem(w, self, rhs) ==
    LET c == checked_rem(FALSE, w, self, rhs) IN
    IF c = None THEN Err(Undefined) ELSE Ok(c.val)

\* Variant: the failure is reported as Overflow, as try_add and try_mul do.
uint_try_sub_overflow(w, self, rhs) ==
    LET c == checked_sub(FALSE, w, self, rhs) IN
    IF c = None THEN Err(Overflow) ELSE Ok(c.val)

uint_try_sub(w, self, rhs) ==
    LET c == checked_sub(FALSE, w, self, rhs) IN
    IF c = None THEN Err(Underflow) ELSE Ok(c.val)

-----------------------------------------------------------------------------
(* The Try traits, resolved on the operand type.                           *)

try_add(s, w, self, rhs) ==
    IF s THEN int_try_add(w, self, rhs) ELSE uint_try_add(w, self, rhs)
try_div(s, w, self, rhs) ==
    IF s THEN int_try_div(w, self, rhs) ELSE uint_try_div(w, self, rhs)
try_mul(s, w, self, rhs) ==
    IF s THEN int_try_mul(w, self, rhs) ELSE uint_try_mul(w, self, rhs)
try_neg(s, w, self) ==
    IF s THEN int_try_neg(w, self) ELSE uint_try_neg(w, self)
try_rem(s, w, self, rhs) ==
    IF s THEN int_try_rem(w, self, rhs) ELSE uint_try_rem(w, self, rhs)
try_sub(s, w, self, rhs) ==
    IF s THEN int_try_sub(w, self, rhs) ELSE uint_try_sub(w, self, rhs)

-----------------------------------------------------------------------------
(* saturating_ops.rs.  Each trait method forwards to the inherent method   *)
(* of the same name, which clamps the exact result to the type's range.    *)

Clamp(s, w, r) ==
    IF r > MAX(s, w) THEN MAX(s, w)
    ELSE IF r < MIN(s, w) THEN MIN(s, w)
    ELSE r

\* The two's-complement reduction of r modulo 2^w into the type's range.
Wrap(s, w, r) == ((r - MIN(s, w)) % Pow2(w)) + MIN(s, w)

core_saturating_add(s, w, self, rhs) == Clamp(s, w, self + rhs)
core_saturating_sub(s, w, self, rhs) == Clamp(s, w, self - rhs)
core_saturating_mul(s, w, self, rhs) == Clamp(s, w, self * rhs)
\* i{N}::saturating_neg is the saturating subtraction 0 - self.
core_saturating_neg(w, self) == core_saturating_sub(TRUE, w, 0, self)

core_wrapping_add(s, w, self, rhs) == Wrap(s, w, self + rhs)
core_wrapping_sub(s, w, self, rhs) == Wrap(s, w, self - rhs)
core_wrapping_mul(s, w, self, rhs) == Wrap(s, w, self * rhs)
core_wrapping_neg(s, w, self) == Wrap(s, w, -self)

saturating_add(s, w, self, rhs) == Val(core_saturating_add(s, w, self, rhs))

\* Variant: the method forwards to the wrapping multiplication.
saturating_mul_wrapping(s, w, self, rhs) == Val(core_wrapping_mul(s, w, self, rhs))

saturating_mul(s, w, self, rhs) == Val(core_saturating_mul(s, w, self, rhs))

\* Variant: the method forwards to the wrapping negation.
saturating_neg_wrapping(w, self) == Val(core_wrapping_neg(TRUE, w, self))

saturating_neg(w, self) == Val(core_saturating_neg(w, self))

saturating_sub(s, w, self, rhs) == Val(core_saturating_sub(s, w, self, rhs))

-----------------------------------------------------------------------------
(* wrapping_ops.rs.  Each trait method forwards to the inherent method.    *)

wrapping_add(s, w, self, rhs) == Val(core_wrapping_add(s, w, self, rhs))
wrapping_mul(s, w, self, rhs) == Val(core_wrapping_mul(s, w, self, rhs))
wrapping_neg(s, w, self) == Val(core_wrapping_neg(s, w, self))
\* Variant: the method forwards to the saturating subtraction.
wrapping_sub_saturating(s, w, self, rhs) == Val(core_saturating_sub(s, w, self, rhs))

wrapping_sub(s, w, self, rhs) == Val(core_wrapping_sub(s, w, self, rhs))

-----------------------------------------------------------------------------
(* The caller: operands of one integer type, then one operator call.       *)

Init ==
    /\ signed \in BOOLEAN
    /\ bits \in Widths
    /\ x \in Range(signed, bits)
    /\ y \in Range(signed, bits)
    /\ op = "idle"
    /\ result = Pending
    /\ converted = Unconverted

Call(name, r) ==
    /\ op = "idle"
    /\ op' = name
    /\ result' = r
    /\ UNCHANGED <<signed, bits, x, y, converted>>

TryAdd == Call("try_add", try_add(signed, bits, x, y))
TryDiv == Call("try_div", try_div(signed, bits, x, y))
TryMul == Call("try_mul", try_mul(signed, bits, x, y))
TryNeg == Call("try_neg", try_neg(signed, bits, x))
TryRem == Call("try_rem", try_rem(signed, bits, x, y))
TrySub == Call("try_sub", try_sub(signed, bits, x, y))

SaturatingAdd == Call("saturating_add", saturating_add(signed, bits, x, y))
SaturatingMul == Call("saturating_mul", saturating_mul(signed, bits, x, y))
\* SaturatingNeg is implemented for the signed types only.
SaturatingNeg == signed /\ Call("saturating_neg", saturating_neg(bits, x))
SaturatingSub == Call("saturating_sub", saturating_sub(signed, bits, x, y))

WrappingAdd == Call("wrapping_add", wrapping_add(signed, bits, x, y))
WrappingMul == Call("wrapping_mul", wrapping_mul(signed, bits, x, y))
WrappingNeg == Call("wrapping_neg", wrapping_neg(signed, bits, x))
WrappingSub == Call("wrapping_sub", wrapping_sub(signed, bits, x, y))

\* The caller widens the error a checked operator returned.
IntoArithmeticError ==
    /\ result.tag = "Err"
    /\ converted = Unconverted
    /\ result.err.type \in ArithmeticError_sources
    /\ converted' = ArithmeticError_from(result.err)
    /\ UNCHANGED <<signed, bits, x, y, op, result>>

IntoRangeError ==
    /\ result.tag = "Err"
    /\ converted = Unconverted
    /\ result.err.type \in RangeError_sources
    /\ converted' = RangeError_from(result.err)
    /\ UNCHANGED <<signed, bits, x, y, op, result>>

Next ==
    \/ TryAdd \/ TryDiv \/ TryMul \/ TryNeg \/ TryRem \/ TrySub
    \/ SaturatingAdd \/ SaturatingMul \/ SaturatingNeg \/ SaturatingSub
    \/ WrappingAdd \/ WrappingMul \/ WrappingNeg \/ WrappingSub
    \/ IntoArithmeticError \/ IntoRangeError

Spec == Init /\ [][Next]_vars

-----------------------------------------------------------------------------
(* Properties.                                                             *)

Lo == MIN(signed, bits)
Hi == MAX(signed, bits)

\* q is the quotient of a by b truncated toward zero.
IsQuotient(q, a, b) ==
    LET r == a - q * b IN
    /\ Abs(r) < Abs(b)
    /\ r = 0 \/ (r < 0) = (a < 0)

\* r is the remainder of a by b, its sign following the dividend a.
IsRemainder(r, a, b) ==
    /\ Abs(r) < Abs(b)
    /\ (a - r) % Abs(b) = 0
    /\ r = 0 \/ (r < 0) = (a < 0)

\* C1: signed try_add / try_sub return Ok(r) exactly when the exact result r
\* is in [MIN, MAX], Err(RangeError::Overflow) exactly when r > MAX and
\* Err(RangeError::Underflow) exactly when r < MIN; on every failing pair the
\* rule "Overflow when self >= 0, else Underflow" gives the true direction.
C1_SignedAddSubClassified ==
    (signed /\ op \in {"try_add", "try_sub"}) =>
        LET r == IF op = "try_add" THEN x + y ELSE x - y IN
        /\ (result = Ok(r)) <=> (Lo <= r /\ r <= Hi)
        /\ (result = Err(RangeError_Overflow)) <=> (r > Hi)
        /\ (result = Err(RangeError_Underflow)) <=> (r < Lo)
        /\ (r \notin Lo..Hi) => ((x >= 0) <=> (r > Hi))

C1_Witness ==
    /\ signed /\ op = "try_sub"
    /\ x = 0 /\ y = Lo
    /\ result = Err(RangeError_Overflow)

\* C2: signed try_mul returns Ok(r) exactly when the exact product r is in
\* [MIN, MAX], Err(RangeError::Overflow) exactly when r > MAX and
\* Err(RangeError::Underflow) exactly when r < MIN; on every failing pair the
\* rule "Overflow when (self >= 0) == (rhs >= 0)" gives the true direction.
C2_SignedMulClassified ==
    (signed /\ op = "try_mul") =>
        LET r == x * y IN
        /\ (result = Ok(r)) <=> (Lo <= r /\ r <= Hi)
        /\ (result = Err(RangeError_Overflow)) <=> (r > Hi)
        /\ (result = Err(RangeError_Underflow)) <=> (r < Lo)
        /\ (r \notin Lo..Hi) => (((x >= 0) = (y >= 0)) <=> (r > Hi))
        /\ (x = 0 \/ y = 0) => result = Ok(0)

C2_Witness ==
    /\ signed /\ op = "try_mul"
    /\ x = Lo /\ y = -1
    /\ result = Err(RangeError_Overflow)

\* C3: try_div fails with Undefined exactly when rhs == 0; on a signed type
\* it fails with ArithmeticError::Overflow exactly when self == MIN and
\* rhs == -1; an unsigned type has no other failure; every other call
\* returns Ok of the quotient truncated toward zero.
C3_DivClassified ==
    (op = "try_div") =>
        /\ (result.tag = "Err" /\ result.err.kind = "Undefined") <=> (y = 0)
        /\ (result.tag = "Err" /\ result.err.kind = "Overflow")
               <=> (signed /\ x = Lo /\ y = -1)
        /\ (y = 0) =>
               result = Err(IF signed THEN ArithmeticError_Undefined ELSE Undefined)
        /\ (signed /\ x = Lo /\ y = -1) => result = Err(ArithmeticError_Overflow)
        /\ (y # 0 /\ ~(signed /\ x = Lo /\ y = -1)) =>
               /\ result.tag = "Ok"
               /\ IsQuotient(result.val, x, y)

C3_Witness ==
    /\ signed /\ op = "try_div"
    /\ x = Lo /\ y = -1
    /\ result = Err(ArithmeticError_Overflow)

\* C4: try_rem fails with Undefined exactly when rhs == 0 and has no other
\* failure; signed MIN rem -1 is Ok(0); every other call returns Ok of the
\* remainder, whose sign follows the dividend (99 rem -10 = 9,
\* -99 rem 10 = -9 on i8).
C4_RemClassified ==
    /\ (op = "try_rem") =>
        /\ (result.tag = "Err") <=> (y = 0)
        /\ (y = 0) => result = Err(Undefined)
        /\ (signed /\ x = Lo /\ y = -1) => result = Ok(0)
        /\ (y # 0) =>
               /\ result.tag = "Ok"
               /\ IsRemainder(result.val, x, y)
    /\ try_rem(TRUE, 8, 99, -10) = Ok(9)
    /\ try_rem(TRUE, 8, -99, 10) = Ok(-9)

C4_Witness ==
    /\ signed /\ op = "try_rem"
    /\ x = Lo /\ y = -1
    /\ result = Ok(0)

\* C5: signed try_neg returns Err(Overflow) exactly when self == MIN and
\* Ok(-self) otherwise; unsigned try_neg returns Ok(0) for 0 and
\* Err(Underflow) for every other value.
C5_NegClassified ==
    (op = "try_neg") =>
        IF signed
        THEN /\ (result = Err(Overflow)) <=> (x = Lo)
             /\ (x # Lo) => result = Ok(-x)
        ELSE /\ (x = 0) => result = Ok(0)
             /\ (x # 0) => result = Err(Underflow)

C5_Witness ==
    /\ ~signed /\ op = "try_neg"
    /\ x # 0
    /\ result = Err(Underflow)

\* C6: unsigned try_add is Ok(a + b) when a + b <= MAX and Err(Overflow)
\* otherwise; unsigned try_mul is Ok(a * b) when a * b <= MAX and
\* Err(Overflow) otherwise; unsigned try_sub is Ok(a - b) when a >= b and
\* Err(Underflow) otherwise.
C6_UnsignedAddMulSub ==
    /\ (~signed /\ op = "try_add") =>
           result = IF x + y <= Hi THEN Ok(x + y) ELSE Err(Overflow)
    /\ (~signed /\ op = "try_mul") =>
           result = IF x * y <= Hi THEN Ok(x * y) ELSE Err(Overflow)
    /\ (~signed /\ op = "try_sub") =>
           result = IF x >= y THEN Ok(x - y) ELSE Err(Underflow)

C6_Witness ==
    /\ ~signed /\ op = "try_sub"
    /\ x < y
    /\ result = Err(Underflow)

\* C7 as stated: every failing unsigned try_add, try_sub or try_mul yields
\* the single kind Overflow.
C7_UnsignedFailuresAllOverflow ==
    (~signed /\ op \in {"try_add", "try_sub", "try_mul"} /\ result.tag = "Err") =>
        result.err = Overflow

\* C7 as amended: on unsigned types each of try_add, try_sub and try_mul
\* fails with a single kind: Overflow for try_add and try_mul, Underflow
\* for try_sub.
C7_UnsignedFailuresSingleKind ==
    (~signed /\ result.tag = "Err") =>
        /\ (op \in {"try_add", "try_mul"}) => result.err = Overflow
        /\ (op = "try_sub") => result.err = Underflow

C7_Witness ==
    /\ ~signed /\ op = "try_mul"
    /\ x * y > Hi
    /\ result = Err(Overflow)

\* The error type each checked operator declares for the operand type.
ErrorType(s, name) ==
    CASE name \in {"try_add", "try_sub", "try_mul"} ->
             IF s THEN RangeError ELSE
             IF name = "try_sub" THEN {Underflow} ELSE {Overflow}
      [] name = "try_div" -> IF s THEN ArithmeticError ELSE {Undefined}
      [] name = "try_rem" -> {Undefined}
      [] name = "try_neg" -> IF s THEN {Overflow} ELSE {Underflow}

TryOps == {"try_add", "try_sub", "try_mul", "try_div", "try_rem", "try_neg"}

\* C8: totality.  Every checked operator can be called on every operand
\* combination of every type, and the call ends in exactly one outcome:
\* Ok of a value of the operand type or Err of an error of the operator's
\* error type; no call unwinds or is left without a result.
C8_Totality ==
    /\ (op = "idle") =>
           /\ ENABLED TryAdd /\ ENABLED TrySub /\ ENABLED TryMul
           /\ ENABLED TryDiv /\ ENABLED TryRem /\ ENABLED TryNeg
    /\ (op \in TryOps) =>
           /\ result.tag \in {"Ok", "Err"}
           /\ (result.tag = "Ok") => result = Ok(result.val) /\ result.val \in Lo..Hi
           /\ (result.tag = "Err") =>
                  result = Err(result.err) /\ result.err \in ErrorType(signed, op)

C8_Witness ==
    /\ signed /\ op = "try_div"
    /\ x = Lo /\ y = 0
    /\ result = Err(ArithmeticError_Undefined)

\* C9: saturating clamp law.  For add, sub and mul: when the checked
\* operator returns Ok(v) the saturating operator returns v; when it fails
\* with Overflow the saturating operator returns MAX; when it fails with
\* Underflow the saturating operator returns MIN.
C9_SaturatingClampLaw ==
    (op \in {"saturating_add", "saturating_sub", "saturating_mul"}) =>
        LET t == CASE op = "saturating_add" -> try_add(signed, bits, x, y)
                   [] op = "saturating_sub" -> try_sub(signed, bits, x, y)
                   [] op = "saturating_mul" -> try_mul(signed, bits, x, y)
        IN
        /\ (t.tag = "Ok") => result = Val(t.val)
        /\ (t.tag = "Err" /\ t.err.kind = "Overflow") => result = Val(Hi)
        /\ (t.tag = "Err" /\ t.err.kind = "Underflow") => result = Val(Lo)

C9_Witness ==
    /\ signed /\ op = "saturating_mul"
    /\ try_mul(signed, bits, x, y) = Err(RangeError_Underflow)
    /\ result = Val(Lo)

\* C10: signed saturating_neg returns MAX for MIN and the exact negation
\* for every other value; it can be called on every signed value and never
\* returns MIN for MIN.
C10_SaturatingNeg ==
    /\ (signed /\ op = "idle") => ENABLED SaturatingNeg
    /\ (op = "saturating_neg") =>
           /\ signed
           /\ result = Val(IF x = Lo THEN Hi ELSE -x)
           /\ (x = Lo) => result.val # Lo

C10_Witness ==
    /\ op = "saturating_neg"
    /\ x = Lo
    /\ result = Val(Hi)

\* C11: the saturating negation is available on the unsigned types too: it
\* can be called on every unsigned value and returns 0.
C11_UnsignedSaturatingNeg ==
    /\ (~signed /\ op = "idle") => ENABLED SaturatingNeg
    /\ (~signed /\ op = "saturating_neg") => result = Val(0)

WrappingOps == {"wrapping_add", "wrapping_sub", "wrapping_mul", "wrapping_neg"}

\* C12: wrapping consistency.  wrapping_add, wrapping_sub, wrapping_mul and
\* wrapping_neg return the one value of the type's range congruent to the
\* exact result modulo 2^W; so the value equals the checked operator's when
\* that succeeds, and differs from the exact result when it fails
\* (wrapping_neg(i8::MIN) == MIN, wrapping_neg(1u8) == 255,
\* wrapping_add(200u8, 56) == 0).
C12_WrappingConsistency ==
    /\ (op \in WrappingOps) =>
        LET r == CASE op = "wrapping_add" -> x + y
                   [] op = "wrapping_sub" -> x - y
                   [] op = "wrapping_mul" -> x * y
                   [] op = "wrapping_neg" -> -x
            t == CASE op = "wrapping_add" -> try_add(signed, bits, x, y)
                   [] op = "wrapping_sub" -> try_sub(signed, bits, x, y)
                   [] op = "wrapping_mul" -> try_mul(signed, bits, x, y)
                   [] op = "wrapping_neg" -> try_neg(signed, bits, x)
        IN
        /\ result.tag = "Val"
        /\ result.val \in Lo..Hi
        /\ (result.val - r) % Pow2(bits) = 0
        /\ (t.tag = "Ok") => result = Val(t.val)
        /\ (t.tag = "Err") => result.val # r
    /\ wrapping_neg(TRUE, 8, -128) = Val(-128)
    /\ wrapping_neg(FALSE, 8, 1) = Val(255)
    /\ wrapping_add(FALSE, 8, 200, 56) = Val(0)

C12_Witness ==
    /\ signed /\ op = "wrapping_sub"
    /\ x = Lo /\ y = 1
    /\ result = Val(Hi)

\* How many kinds an error type holds: the unit structs are the narrowest,
\* ArithmeticError the broadest.
Breadth(type) ==
    CASE type \in {"Overflow", "Underflow", "Undefined"} -> 1
      [] type = "RangeError" -> 2
      [] type = "ArithmeticError" -> 3

\* C13: conversion losslessness.  Each widening conversion (Overflow,
\* Underflow -> RangeError; Overflow, Underflow, Undefined, RangeError ->
\* ArithmeticError) applies to every value of its source type and yields
\* the target's variant of the same kind, so the original kind is recovered
\* from the converted value; no conversion leads to a type that is not
\* strictly broader than its source.
C13_ConversionLossless ==
    /\ (result.tag = "Err" /\ converted = Unconverted) =>
        /\ ENABLED IntoArithmeticError
               <=> result.err.type \in {"Overflow", "Underflow", "Undefined", "RangeError"}
        /\ ENABLED IntoRangeError
               <=> result.err.type \in {"Overflow", "Underflow"}
    /\ (converted # Unconverted) =>
        /\ converted \in RangeError \cup ArithmeticError
        /\ converted.kind = result.err.kind
        /\ Breadth(converted.type) > Breadth(result.err.type)

C13_Witness ==
    /\ result = Err(RangeError_Underflow)
    /\ converted = ArithmeticError_Underflow

\* C14: checked addition and multiplication are commutative, error kind
\* included: try_add(a, b) == try_add(b, a) and try_mul(a, b) ==
\* try_mul(b, a) for every pair of every type.
C14_AddMulCommutative ==
    /\ (op = "try_add") => result = try_add(signed, bits, y, x)
    /\ (op = "try_mul") => result = try_mul(signed, bits, y, x)

C14_Witness ==
    /\ signed /\ op = "try_mul"
    /\ x > 0 /\ y < 0
    /\ result = Err(RangeError_Underflow)
    /\ try_mul(signed, bits, y, x) = Err(RangeError_Underflow)

\* C15: division and remainder are consistent.  Whenever try_div returns
\* Ok(q) and try_rem returns Ok(r) for the same pair, a == q * b + r and
\* |r| < |b|; try_rem succeeds wherever try_div does; the only pair with
\* b != 0 on which try_rem succeeds and try_div fails is signed (MIN, -1),
\* where r == 0.
C15_DivRemConsistent ==
    /\ (op = "try_div" /\ result.tag = "Ok") =>
        LET r == try_rem(signed, bits, x, y) IN
        /\ r.tag = "Ok"
        /\ x = result.val * y + r.val
        /\ Abs(r.val) < Abs(y)
    /\ (op = "try_rem" /\ result.tag = "Ok") =>
        LET q == try_div(signed, bits, x, y) IN
        /\ (q.tag = "Ok") =>
               /\ x = q.val * y + result.val
               /\ Abs(result.val) < Abs(y)
        /\ (q.tag = "Err" /\ y # 0) =>
               /\ signed /\ x = Lo /\ y = -1
               /\ result = Ok(0)

C15_Witness ==
    /\ signed /\ op = "try_div"
    /\ x < 0 /\ y > 1
    /\ result.tag = "Ok"
    /\ try_rem(signed, bits, x, y).val < 0

====
